---------------------------- MODULE Spec2Model ----------------------------
(***************************************************************************)
(* Model of spectral/_spectral.py: the Spectral feature extractor.         *)
(*                                                                         *)
(* Numbers.  Frequencies, sample rates and sample values are integers.     *)
(* window_length and window_shift are dyadic fractions n/TimeDen of a      *)
(* second, so every product with fs is exact in IEEE doubles.  Filterbank  *)
(* coefficients are exact fractions [n, d]; d = 0 encodes the non-finite   *)
(* doubles (n = 0: NaN, n > 0: +inf, n < 0: -inf).  Spectra, which the     *)
(* code gets from an FFT, are carried as one class per frame:              *)
(*   "zero" every bin is exactly 0      "nan"  every bin is NaN            *)
(*   "num"  finite and >= 0             "any"  nothing is known            *)
(* and feature entries as "fin" (finite), "nan" or "any".                  *)
(***************************************************************************)
EXTENDS Integers, Sequences, FiniteSets, TLC

VARIABLES
    state,   \* "Unconfigured", "Ready" (constructed) or "Failed" (__init__ raised)
    args,    \* the arguments __init__ was called with
    self,    \* the attributes of the Spectral object once state = "Ready"
    calls,   \* per calling thread: the transform / get_spectrogram call in progress
    X,       \* input matrix of the delta filters (SpecDeltas)
    dout     \* [delta |-> do_deltas(X), deltadelta |-> do_deltasdeltas(X)]

vars == <<state, args, self, calls, X, dout>>

-----------------------------------------------------------------------------
(* Bounds of the model *)

MaxSigLen == 3
MaxDeltaRows == 3
MaxDeltaCols == 2

\* window_length and window_shift are given in units of 1/TimeDen second
TimeDen == 2 * 64
\* the warped edge frequencies are tabulated in units of 1/MicroHz Hertz
MicroHz == 1000 * 1000

Threads == {1, 2}

-----------------------------------------------------------------------------
(* Arithmetic helpers *)

Abs(x) == IF x < 0 THEN -x ELSE x

Sign(x) == IF x > 0 THEN 1 ELSE IF x < 0 THEN -1 ELSE 0

Min(a, b) == IF a < b THEN a ELSE b

Max(a, b) == IF a > b THEN a ELSE b

RECURSIVE Gcd(_, _)
Gcd(a, b) == IF b = 0 THEN a ELSE Gcd(b, a % b)

\* Python int(n / dd) for dd > 0: truncation toward zero
PyInt(n, dd) == IF n >= 0 THEN n \div dd ELSE -((-n) \div dd)

\* numpy.ceil(n / dd) for dd # 0
Ceil(n, dd) ==
    LET nn == IF dd < 0 THEN -n ELSE n
        pd == Abs(dd)
    IN  -((-nn) \div pd)

\* numpy.round(n / dd) for dd > 0: round half to even
RoundHalfEven(n, dd) ==
    LET q == n \div dd
        r == n - q * dd
    IN  IF 2 * r < dd THEN q
        ELSE IF 2 * r > dd THEN q + 1
        ELSE IF q % 2 = 0 THEN q ELSE q + 1

\* Python a & b for a, b >= 0
RECURSIVE BitAnd(_, _)
BitAnd(a, b) ==
    IF a = 0 \/ b = 0 THEN 0
    ELSE (a % 2) * (b % 2) + 2 * BitAnd(a \div 2, b \div 2)

-----------------------------------------------------------------------------
(* IEEE doubles met in the filterbank, as exact fractions *)

NaN == [n |-> 0, d |-> 0]

Zero == [n |-> 0, d |-> 1]

IsNaN(a) == a.d = 0 /\ a.n = 0

IsInf(a) == a.d = 0 /\ a.n # 0

IsFinite(a) == a.d # 0

\* numpy true division of the integers n / dd (a zero divisor gives inf or nan)
TrueDivide(n, dd) ==
    IF dd = 0 THEN [n |-> Sign(n), d |-> 0]
    ELSE LET g == Gcd(Abs(n), Abs(dd))
             s == Sign(dd)
         IN  [n |-> (s * n) \div g, d |-> Abs(dd) \div g]

FAdd(a, b) ==
    IF IsNaN(a) \/ IsNaN(b) THEN NaN
    ELSE IF IsInf(a) /\ IsInf(b) THEN (IF a.n = b.n THEN a ELSE NaN)
    ELSE IF IsInf(a) THEN a
    ELSE IF IsInf(b) THEN b
    ELSE TrueDivide(a.n * b.d + b.n * a.d, a.d * b.d)

FDiv(a, b) ==
    IF IsNaN(a) \/ IsNaN(b) THEN NaN
    ELSE IF IsInf(a) THEN (IF IsInf(b) THEN NaN
                           ELSE [n |-> a.n * (IF b.n < 0 THEN -1 ELSE 1), d |-> 0])
    ELSE IF IsInf(b) THEN Zero
    ELSE TrueDivide(a.n * b.d, a.d * b.n)

RECURSIVE FSum(_)
FSum(s) == IF s = <<>> THEN Zero ELSE FAdd(Head(s), FSum(Tail(s)))

-----------------------------------------------------------------------------
(* Constructor arguments *)

\* the defaults of __init__, scaled down: fs = 32 Hz, a 4-sample window
\* shifted by 2 samples, an 8-point DFT, 3 filters between 0 and 14 Hz
Default ==
    [fs |-> 32, window_length |-> 16, window_shift |-> 8, nfft |-> 8,
     scale |-> "mel", lowerf |-> 0, upperf |-> 14, nfilt |-> 3,
     taper_filt |-> TRUE, compression |-> "log",
     dct |-> FALSE, nceps |-> 2, log_e |-> TRUE, lifter |-> 22,
     deltas |-> FALSE,
     remove_dc |-> FALSE, medfilt_t |-> 0, medfilt_s |-> <<0, 0>>,
     noise_fr |-> 0, pre_emph |-> 1]

\* the other values each argument takes
Alternatives ==
    [fs |-> {16, 0}, window_length |-> {15, 14, 4, 0, -8},
     window_shift |-> {7, 6, 24, 0, -9}, nfft |-> {16, 2, 6, 0},
     scale |-> {"hertz", "bark", "erb", "linear"},
     lowerf |-> {-1, -2, 4, 14}, upperf |-> {8, 16, 17}, nfilt |-> {1, 7, 0},
     taper_filt |-> {FALSE}, compression |-> {"cubicroot", "none", "sqrt"},
     dct |-> {TRUE}, nceps |-> {4, 0, -1}, log_e |-> {FALSE}, lifter |-> {0},
     deltas |-> {TRUE},
     remove_dc |-> {TRUE}, medfilt_t |-> {3, 2}, medfilt_s |-> {<<3, 3>>, <<2, 2>>},
     noise_fr |-> {5, 1}, pre_emph |-> {0, 2, -1}]

Deviate(c) ==
    UNION {{[c EXCEPT ![f] = v] : v \in Alternatives[f]} : f \in DOMAIN Default}

\* every argument list that differs from the defaults in at most two places
Configs == {Default} \cup Deviate(Default) \cup UNION {Deviate(c) : c \in Deviate(Default)}

-----------------------------------------------------------------------------
(* Frequency scales and filterbank edges *)

Scales == {"hertz", "mel", "bark", "erb"}

\* to_hertz(linspace(from_hertz(lowerf), from_hertz(upperf), nfilt + 2)) for the
\* mel, bark and erb scales, evaluated in IEEE doubles and given in micro-Hertz
WarpTable ==
    <<"mel", -2, 8, 3>> :> <<-2000000, 486680, 2982219, 5486648, 8000000>> @@
    <<"mel", -2, 14, 1>> :> <<-2000000, 5954673, 14000000>> @@
    <<"mel", -2, 14, 3>> :> <<-2000000, 1966069, 5954673, 9965940, 14000000>> @@
    <<"mel", -2, 14, 7>> :> <<-2000000, -19775, 1966069, 3957546, 5954673, 7957466, 9965940, 11980113, 14000000>> @@
    <<"mel", -2, 16, 3>> :> <<-2000000, 2457126, 6942713, 11456944, 16000000>> @@
    <<"mel", -1, 8, 3>> :> <<-1000000, 1239217, 3485608, 5739194, 8000000>> @@
    <<"mel", -1, 14, 1>> :> <<-1000000, 6460190, 14000000>> @@
    <<"mel", -1, 14, 3>> :> <<-1000000, 2720195, 6460190, 10220090, 14000000>> @@
    <<"mel", -1, 14, 7>> :> <<-1000000, 857629, 2720195, 4587711, 6460190, 8337645, 10220090, 12107537, 14000000>> @@
    <<"mel", -1, 16, 3>> :> <<-1000000, 3211780, 7448938, 11711627, 16000000>> @@
    <<"mel", 0, 8, 1>> :> <<0, 3988636, 8000000>> @@
    <<"mel", 0, 8, 3>> :> <<0, 1991485, 3988636, 5991469, 8000000>> @@
    <<"mel", 0, 8, 7>> :> <<0, 995035, 1991485, 2989352, 3988636, 4989341, 5991469, 6995021, 8000000>> @@
    <<"mel", 0, 14, 1>> :> <<0, 6965346, 14000000>> @@
    <<"mel", 0, 14, 3>> :> <<0, 3474052, 6965346, 10473966, 14000000>> @@
    <<"mel", 0, 14, 7>> :> <<0, 1734876, 3474052, 5217538, 6965346, 8717485, 10473966, 12234801, 14000000>> @@
    <<"mel", 0, 16, 1>> :> <<0, 7954801, 16000000>> @@
    <<"mel", 0, 16, 3>> :> <<0, 3966164, 7954801, 11966037, 16000000>> @@
    <<"mel", 0, 16, 7>> :> <<0, 1980281, 3966164, 5957666, 7954801, 9957586, 11966037, 13980169, 16000000>> @@
    <<"mel", 4, 8, 3>> :> <<4000000, 4997876, 5997167, 6997874, 8000000>> @@
    <<"mel", 4, 14, 1>> :> <<4000000, 8982369, 14000000>> @@
    <<"mel", 4, 14, 3>> :> <<4000000, 6486793, 8982369, 11486761, 14000000>> @@
    <<"mel", 4, 14, 7>> :> <<4000000, 5242300, 6486793, 7733481, 8982369, 10233462, 11486761, 12742273, 14000000>> @@
    <<"mel", 4, 16, 3>> :> <<4000000, 6981012, 9974647, 12980959, 16000000>> @@
    <<"mel", 14, 16, 3>> :> <<14000000, 14499476, 14999301, 15499475, 16000000>> @@
    <<"bark", -2, 14, 3>> :> <<-2000000, 1999689, 5999467, 9999511, 14000000>> @@
    <<"bark", -1, 14, 3>> :> <<-1000000, 2749692, 6499492, 10249546, 14000000>> @@
    <<"bark", 0, 8, 3>> :> <<0, 1999944, 3999911, 5999922, 8000000>> @@
    <<"bark", 0, 14, 1>> :> <<0, 6999524, 14000000>> @@
    <<"bark", 0, 14, 3>> :> <<0, 3499702, 6999524, 10499583, 14000000>> @@
    <<"bark", 0, 14, 7>> :> <<0, 1749844, 3499702, 5249591, 6999524, 8749516, 10499583, 12249740, 14000000>> @@
    <<"bark", 0, 16, 3>> :> <<0, 3999556, 7999289, 11999378, 16000000>> @@
    <<"bark", 4, 14, 3>> :> <<4000000, 6499787, 8999688, 11499744, 14000000>> @@
    <<"erb", -2, 14, 3>> :> <<-2005953, 1938966, 5913782, 9940048, 14018458>> @@
    <<"erb", -1, 14, 3>> :> <<-1004932, 2691714, 6421901, 10197292, 14018458>> @@
    <<"erb", 0, 8, 3>> :> <<0, 1986572, 3982105, 5990601, 8012147>> @@
    <<"erb", 0, 14, 1>> :> <<0, 6932515, 14018458>> @@
    <<"erb", 0, 14, 3>> :> <<0, 3448776, 6932515, 10455588, 14018458>> @@
    <<"erb", 0, 14, 7>> :> <<0, 1721514, 3448776, 5185757, 6932515, 8689106, 10455588, 12232019, 14018458>> @@
    <<"erb", 0, 16, 3>> :> <<0, 3931590, 7909807, 11939244, 16020588>> @@
    <<"erb", 4, 14, 3>> :> <<4008004, 6480782, 8973340, 11485843, 14018458>>

\* the nfilt + 2 edge frequencies in Hertz, each a fraction [n, d] with d > 0
EdgeHertz(scale, lowerf, upperf, nfilt) ==
    IF scale = "hertz"
    THEN [i \in 1..(nfilt + 2) |->
              [n |-> lowerf * (nfilt + 1) + (i - 1) * (upperf - lowerf), d |-> nfilt + 1]]
    ELSE [i \in 1..(nfilt + 2) |->
              [n |-> WarpTable[<<scale, lowerf, upperf, nfilt>>][i], d |-> MicroHz]]

\* np.round((nfft + 1) * hz / fs) for fs > 0.  On a warped scale a value that
\* lies on a rounding tie to within the table's resolution is a double within a
\* few ulp of the tie: the mathematical library decides which way it falls.
RoundedBins(scale, hz, nfft, fs) ==
    LET num == (nfft + 1) * hz.n
        den == hz.d * fs
        q == num \div den
    IN  IF scale # "hertz" /\ 2 * (num - q * den) = den
        THEN {q, q + 1}
        ELSE {RoundHalfEven(num, den)}

\* .astype(np.uint) followed by np.int32(): converting a negative double to an
\* unsigned integer is undefined in C; builds either wrap (the value comes back
\* unchanged as an int32) or saturate at 0
CastModes == {"wrap", "saturate"}

AsUintInt32(v, mode) == IF v < 0 /\ mode = "saturate" THEN 0 ELSE v

RECURSIVE SeqProduct(_, _)
\* all sequences s of length k with s[i] \in choices[i]
SeqProduct(choices, k) ==
    IF k = 0 THEN {<<>>}
    ELSE {Append(s, v) : s \in SeqProduct(choices, k - 1), v \in choices[k]}

\* the edges arrays lines 149-153 can produce
EdgeChoices(cfg) ==
    LET hz == EdgeHertz(cfg.scale, cfg.lowerf, cfg.upperf, cfg.nfilt)
        bins == [i \in 1..(cfg.nfilt + 2) |-> RoundedBins(cfg.scale, hz[i], cfg.nfft, cfg.fs)]
        rounded == SeqProduct(bins, cfg.nfilt + 2)
    IN  IF \E r \in rounded : \E i \in 1..Len(r) : r[i] < 0
        THEN {[i \in 1..Len(r) |-> AsUintInt32(r[i], m)] : r \in rounded, m \in CastModes}
        ELSE rounded

-----------------------------------------------------------------------------
(* Filterbank *)

\* Python a[l:r] on an axis of length n: the indices start .. stop-1 (0-based)
SliceStart(l, n) == IF l < 0 THEN Max(l + n, 0) ELSE Min(l, n)

SliceLen(l, r, n) == Max(SliceStart(r, n) - SliceStart(l, n), 0)

\* numpy col[l:r] = rhs for 1-d rhs: shapes must agree or rhs has one element
CanAssign(l, r, n, rhs) == Len(rhs) = SliceLen(l, r, n) \/ Len(rhs) = 1

AssignSlice(col, l, r, rhs) ==
    LET n == Len(col)
        start == SliceStart(l, n)
        len == SliceLen(l, r, n)
    IN  [b \in 1..n |->
            IF b - 1 >= start /\ b - 1 < start + len
            THEN (IF Len(rhs) = 1 THEN rhs[1] ELSE rhs[b - start])
            ELSE col[b]]

\* (np.arange(left, center+1) - left) / (center - left)
AscendingRamp(left, center) ==
    [j \in 1..Max(center + 1 - left, 0) |-> TrueDivide(j - 1, center - left)]

\* (right - np.arange(center, right+1)) / (right - center)
DescendingRamp(center, right) ==
    [j \in 1..Max(right + 1 - center, 0) |-> TrueDivide(right - center - (j - 1), right - center)]

\* lines 155-161 raise no ValueError for this filter
FilterFits(edges, filt, nbins) ==
    LET left == edges[filt] center == edges[filt + 1] right == edges[filt + 2]
    IN  /\ CanAssign(left, center + 1, nbins, AscendingRamp(left, center))
        /\ CanAssign(center, right + 1, nbins, DescendingRamp(center, right))

\* column filt (1-based) of filts after lines 155-161
FilterColumn(edges, filt, nbins) ==
    LET left == edges[filt] center == edges[filt + 1] right == edges[filt + 2]
        zeros == [b \in 1..nbins |-> Zero]
        up == AssignSlice(zeros, left, center + 1, AscendingRamp(left, center))
    IN  AssignSlice(up, center, right + 1, DescendingRamp(center, right))

\* filts / filts.sum(axis=0), one column
Taper(col) == LET s == FSum(col) IN [b \in 1..Len(col) |-> FDiv(col[b], s)]

\* self.filters: one sequence of nfft//2+1 coefficients per filter
BuildFilters(cfg, edges) ==
    LET nbins == cfg.nfft \div 2 + 1
    IN  [f \in 1..cfg.nfilt |->
            LET col == FilterColumn(edges, f, nbins)
            IN  IF cfg.taper_filt THEN Taper(col) ELSE col]

-----------------------------------------------------------------------------
(* Spectral.__init__ *)

CompressionTypes == {"log", "cubicroot", "none"}

NoSelf == [err |-> "none"]

\* the exception raised by the argument checks of lines 100-136, "none" if none
ArgumentError(cfg) ==
    IF cfg.scale \notin Scales THEN "ValueError"
    ELSE IF ~(cfg.nfilt > 0) THEN "ValueError"
    ELSE IF cfg.upperf > cfg.fs \div 2 THEN "ValueError"
    ELSE IF cfg.lowerf >= cfg.upperf THEN "ValueError"
    ELSE IF ~(0 <= cfg.pre_emph /\ cfg.pre_emph <= 1) THEN "ValueError"
    ELSE IF ~(cfg.nfft > 0 /\ BitAnd(cfg.nfft, cfg.nfft - 1) = 0) THEN "ValueError"
    ELSE IF cfg.compression \notin CompressionTypes THEN "ValueError"
    ELSE "none"

\* _build_dctmtx: the nceps x nfilt matrix (its shape; the entries are cosines).
\* dctmtx[0,:] raises IndexError when the matrix has no row.
DctError(cfg) == IF cfg.dct /\ cfg.nceps <= 0 THEN "IndexError" ELSE "none"

build_dctmtx(cfg) == [rows |-> cfg.nceps, cols |-> cfg.nfilt]

n_features(cfg) ==
    IF ~cfg.dct
    THEN (IF cfg.deltas THEN cfg.nfilt * 3 ELSE cfg.nfilt)
    ELSE (IF cfg.deltas THEN cfg.nceps * 3 ELSE cfg.nceps)

\* the window length rounded to the nearest integer instead of truncated
wlenRounded(cfg) == RoundHalfEven(cfg.window_length * cfg.fs, TimeDen)

wlen(cfg) == PyInt(cfg.window_length * cfg.fs, TimeDen)

fshift(cfg) == PyInt(cfg.window_shift * cfg.fs, TimeDen)

\* the object __init__ leaves behind when nothing raises
NewSelf(cfg, edges) ==
    [fs |-> cfg.fs, window_length |-> cfg.window_length,
     window_shift |-> cfg.window_shift, nfft |-> cfg.nfft,
     scale |-> cfg.scale, lowerf |-> cfg.lowerf, upperf |-> cfg.upperf,
     nfilt |-> cfg.nfilt, taper_filt |-> cfg.taper_filt,
     compression |-> cfg.compression,
     dct |-> cfg.dct, nceps |-> cfg.nceps, log_e |-> cfg.log_e,
     lifter |-> cfg.lifter, deltas |-> cfg.deltas,
     remove_dc |-> cfg.remove_dc, medfilt_t |-> cfg.medfilt_t,
     medfilt_s |-> cfg.medfilt_s, noise_fr |-> cfg.noise_fr,
     pre_emph |-> cfg.pre_emph,
     wlen |-> wlen(cfg), fshift |-> fshift(cfg),
     filters |-> BuildFilters(cfg, edges),
     dctmtx |-> IF cfg.dct THEN build_dctmtx(cfg) ELSE [rows |-> 0, cols |-> 0],
     n_features |-> n_features(cfg)]

\* what __init__(cfg) can do: raise err, or leave the object self
InitOutcomes(cfg) ==
    IF ArgumentError(cfg) # "none"
    THEN {[err |-> ArgumentError(cfg)]}
    ELSE {IF \E f \in 1..cfg.nfilt : ~FilterFits(edges, f, cfg.nfft \div 2 + 1)
          THEN [err |-> "ValueError"]
          ELSE IF DctError(cfg) # "none"
          THEN [err |-> DctError(cfg)]
          ELSE [err |-> "none", self |-> NewSelf(cfg, edges)]
            : edges \in EdgeChoices(cfg)}

-----------------------------------------------------------------------------
(* Signal preprocessing: samples are integers until the gain normalisation *)

SampleValues == {0, 1}

Signals == UNION {[1..n -> SampleValues] : n \in 0..MaxSigLen}

\* scipy's filtfilt pads by 3 * max(len(a), len(b)) samples (b, a: lines 298-299)
\* and raises ValueError unless the signal is longer than that
DcPadLen == 6

\* the median of the kernel_size values around sample i, zeros beyond the ends
MedianAt(sig, i, kernel_size) ==
    LET h == kernel_size \div 2
        w == [j \in 1..kernel_size |->
                 IF i - h + j - 1 >= 1 /\ i - h + j - 1 <= Len(sig)
                 THEN sig[i - h + j - 1] ELSE 0]
    IN  CHOOSE v \in {w[j] : j \in 1..kernel_size} :
            /\ Cardinality({j \in 1..kernel_size : w[j] < v}) <= h
            /\ Cardinality({j \in 1..kernel_size : w[j] <= v}) >= h + 1

\* ss.medfilt(sig, kernel_size) for odd kernel_size
medfilt(sig, kernel_size) == [i \in 1..Len(sig) |-> MedianAt(sig, i, kernel_size)]

\* ss.lfilter([1, -pre_emph], 1, sig, zi=lfilter_zi(b, a)): zi = [-pre_emph]
pre_emphasis(pre_emph, sig) ==
    [i \in 1..Len(sig) |->
        IF i = 1 THEN sig[1] - pre_emph ELSE sig[i] - pre_emph * sig[i - 1]]

RECURSIVE MaxAbs(_)
MaxAbs(sig) == IF sig = <<>> THEN 0 ELSE Max(Abs(Head(sig)), MaxAbs(Tail(sig)))

\* sig / np.abs(sig).max(): the class of each sample
gain_normalize(sig) ==
    [i \in 1..Len(sig) |->
        IF MaxAbs(sig) = 0 THEN "nan" ELSE IF sig[i] = 0 THEN "zero" ELSE "num"]

\* lines 209-224 (269-284 in get_spectrogram): [err, sig]
Preprocess(slf, sig) ==
    IF slf.remove_dc /\ Len(sig) <= DcPadLen THEN [err |-> "ValueError"]
    ELSE IF slf.medfilt_t > 0 /\ slf.medfilt_t % 2 # 1 THEN [err |-> "ValueError"]
    ELSE IF Len(sig) = 0 THEN [err |-> "ValueError"]
    ELSE LET s1 == IF slf.medfilt_t > 0 THEN medfilt(sig, slf.medfilt_t) ELSE sig
             s2 == IF slf.pre_emph > 0 THEN pre_emphasis(slf.pre_emph, s1) ELSE s1
         IN  [err |-> "none", sig |-> gain_normalize(s2)]

-----------------------------------------------------------------------------
(* stft *)

\* cols of line 310, for fshift # 0
FrameCount(len, wl, fs) == Ceil(len + wl \div 2 - wl, fs) + 1

\* sample j (0-based) of the buffer s after both np.pad calls
Padded(sig, wl, j) ==
    IF j >= wl \div 2 /\ j < wl \div 2 + Len(sig) THEN sig[j - wl \div 2 + 1] ELSE "zero"

PaddedLen(len, wl) == len + wl \div 2 + wl

\* frame i (0-based) of as_strided reads outside the buffer
OutOfBounds(len, wl, fs, i) ==
    wl > 0 /\ (i * fs < 0 \/ i * fs + wl > PaddedLen(len, wl))

\* the classes the power spectrum of frame i can have.  rfft(frames*win, nfft)
\* uses the first min(wlen, nfft) samples of the frame and the Hamming window
\* has no zero; a sample read outside the buffer is whatever the heap holds.
FrameClasses(sig, wl, fs, nfft, i) ==
    LET used == {j \in 0..(Min(wl, nfft) - 1) : TRUE}
        inside == {j \in used : i * fs + j >= 0 /\ i * fs + j < PaddedLen(Len(sig), wl)}
        seen == {Padded(sig, wl, i * fs + j) : j \in inside}
        known == IF "nan" \in seen THEN "nan"
                 ELSE IF "num" \in seen THEN "num" ELSE "zero"
    IN  IF inside = used THEN {known}
        ELSE IF known = "nan" THEN {"nan"}
        ELSE IF known = "num" THEN {"num", "nan"}
        ELSE {"zero", "num", "nan"}

\* stft followed by frames.real**2 / nfft (lines 227-231): the exception raised,
\* or the set of per-frame classes the power spectrum can have
StftError(slf, sig) ==
    IF slf.wlen < 0 THEN "ValueError"
    ELSE IF slf.fshift = 0 THEN "ZeroDivisionError"
    ELSE IF FrameCount(Len(sig), slf.wlen, slf.fshift) < 0 THEN "ValueError"
    ELSE "none"

stft(slf, sig) ==
    LET cols == FrameCount(Len(sig), slf.wlen, slf.fshift)
        cls == [i \in 1..cols |-> FrameClasses(sig, slf.wlen, slf.fshift, slf.nfft, i - 1)]
    IN  SeqProduct(cls, cols)

-----------------------------------------------------------------------------
(* Spectral post-processing, one class per frame *)

\* np.log(frames.sum(axis=1).clip(eps, inf)), line 234
LogEnergy(frames) ==
    [i \in 1..Len(frames) |->
        IF frames[i] \in {"zero", "num"} THEN "fin" ELSE frames[i]]

\* ss.medfilt(frames, kernel_size) for an odd kernel, zeros beyond the edges; the
\* median of values that include a NaN is whatever the selection leaves there
medfilt2d(frames, kernel_size) ==
    LET h == kernel_size[1] \div 2
        around(i) == {IF r >= 1 /\ r <= Len(frames) THEN frames[r] ELSE "zero" :
                         r \in (i - h)..(i + h)}
    IN  [i \in 1..Len(frames) |->
            IF around(i) = {"zero"} THEN "zero"
            ELSE IF around(i) \subseteq {"zero", "num"} THEN "num"
            ELSE "any"]

\* frames[:noise_fr, :].mean(axis=0), line 242 (the mean of no frame is NaN)
NoiseEstimate(frames, noise_fr) ==
    LET first == {frames[i] : i \in 1..Min(noise_fr, Len(frames))}
    IN  IF first = {} \/ "nan" \in first THEN "nan"
        ELSE IF "any" \in first THEN "any"
        ELSE IF first = {"zero"} THEN "zero"
        ELSE "num"

\* x / y for a frame of class x and a per-bin divisor of class y >= 0.  A finite
\* divisor may be 0 in some bins, so only NaN and 0/0 are certain.
DivideClass(x, y) ==
    IF x = "nan" \/ y = "nan" THEN "nan"
    ELSE IF x = "zero" /\ y = "zero" THEN "nan"
    ELSE IF y = "pos" THEN x
    ELSE "any"

NoiseProfiles == {"None", "pos", "zero"}

\* lines 236-246
PostProcess(slf, frames, noise_profile) ==
    LET f1 == IF slf.medfilt_s[1] > 0 /\ slf.medfilt_s[2] > 0
              THEN medfilt2d(frames, slf.medfilt_s) ELSE frames
        noise == NoiseEstimate(f1, slf.noise_fr)
        f2 == IF slf.noise_fr > 0
              THEN [i \in 1..Len(f1) |-> DivideClass(f1[i], noise)] ELSE f1
    IN  IF noise_profile # "None"
        THEN [i \in 1..Len(f2) |-> DivideClass(f2[i], noise_profile)] ELSE f2

MedfiltError(slf) ==
    IF slf.medfilt_s[1] > 0 /\ slf.medfilt_s[2] > 0
       /\ (slf.medfilt_s[1] % 2 # 1 \/ slf.medfilt_s[2] % 2 # 1)
    THEN "ValueError" ELSE "none"

-----------------------------------------------------------------------------
(* Filterbank, compression, cepstrum: one class per matrix entry *)

FilterClass(col) ==
    IF \E b \in 1..Len(col) : IsNaN(col[b]) THEN "nan"
    ELSE IF \E b \in 1..Len(col) : IsInf(col[b]) THEN "inf"
    ELSE "fin"

\* one entry of np.dot(frames, self.filters).clip(eps, inf): the clip turns every
\* finite value into one in [eps, inf) and leaves NaN in place
FilterbankEntry(frame, col) ==
    IF frame = "nan" \/ FilterClass(col) = "nan" THEN "nan"
    ELSE IF frame = "any" THEN "any"
    ELSE IF FilterClass(col) = "inf" THEN (IF frame = "zero" THEN "nan" ELSE "any")
    ELSE "fin"

apply_filters(slf, frames) ==
    [i \in 1..Len(frames) |->
        [f \in 1..Len(slf.filters) |-> FilterbankEntry(frames[i], slf.filters[f])]]

\* log_compression, cubicroot_compression, identity_compression of one entry:
\* each maps [eps, inf) to finite values and NaN to NaN
Compress(compression, c) ==
    IF compression = "log" THEN (IF c = "fin" THEN "fin" ELSE c)
    ELSE IF compression = "cubicroot" THEN (IF c = "fin" THEN "fin" ELSE c)
    ELSE c

compressor(slf, m) ==
    [i \in 1..Len(m) |-> [f \in 1..Len(m[i]) |-> Compress(slf.compression, m[i][f])]]

JoinClasses(cs) ==
    IF "nan" \in cs THEN "nan" ELSE IF "any" \in cs THEN "any" ELSE "fin"

\* lines 255-259: np.dot(frames, dctmtx.T), do_lifter, frames[:,0] = log_e
cepstrum(slf, m, log_e) ==
    [i \in 1..Len(m) |->
        [c \in 1..slf.dctmtx.rows |->
            IF c = 1 /\ slf.log_e THEN log_e[i]
            ELSE JoinClasses({m[i][f] : f \in 1..Len(m[i])})]]

-----------------------------------------------------------------------------
(* Delta features *)

\* np.r_[[X[1,:]] * k, X, [X[nframes-1,:]] * k]
PadRows(M, k) ==
    [r \in 1..(Len(M) + 2 * k) |->
        IF r <= k THEN M[2] ELSE IF r <= k + Len(M) THEN M[r - k] ELSE M[Len(M)]]

\* g.flat: row-major
Flat(g, ncols) == [n \in 1..(Len(g) * ncols) |-> g[((n - 1) \div ncols) + 1][((n - 1) % ncols) + 1]]

\* flt.reshape((nrows, ncols))
Reshape(flt, nrows, ncols) == [r \in 1..nrows |-> [j \in 1..ncols |-> flt[(r - 1) * ncols + j]]]

\* m[k:, :]
DropRows(m, k) == [r \in 1..(Len(m) - k) |-> m[r + k]]

\* 60 * np.r_[4:-5:-1] / 60 and 2 * np.r_[1:-2:-1] / 2
DeltaTaps == <<4, 3, 2, 1, 0, -1, -2, -3, -4>>

SmoothTaps == <<1, 0, -1>>

RECURSIVE SumTaps(_, _, _, _)
SumTaps(taps, x, n, k) ==
    IF k > Len(taps) \/ n - (k - 1) < 1 THEN 0
    ELSE taps[k] * x[n - (k - 1)] + SumTaps(taps, x, n, k + 1)

\* ss.lfilter(taps, 1, x) on integers: y[n] = sum_k taps[k] * x[n-k]
lfilter(taps, x) == [n \in 1..Len(x) |-> SumTaps(taps, x, n, 1)]

\* ss.lfilter(taps, 1, x) on classes: each product, also with a zero tap, is formed
lfilterClass(taps, x) ==
    [n \in 1..Len(x) |-> JoinClasses({x[n - (k - 1)] : k \in {k \in 1..Len(taps) : n - (k - 1) >= 1}})]

\* ss.lfilter on a sequence of integers (exact) or of classes (exact = FALSE)
lfilterOn(exact, taps, x) == IF exact THEN lfilter(taps, x) ELSE lfilterClass(taps, x)

\* do_deltas for nframes >= 2 (X[1,:] raises IndexError otherwise)
do_deltas(M, exact) ==
    LET nframes == Len(M)
        nceps == Len(M[1])
        g == PadRows(M, 4)
        flt == lfilterOn(exact, DeltaTaps, Flat(g, nceps))
    IN  DropRows(Reshape(flt, nframes + 8, nceps), 8)

do_deltasdeltas(M, exact) ==
    LET nframes == Len(M)
        nceps == Len(M[1])
        g == PadRows(M, 4 + 1)
        flt1 == lfilterOn(exact, DeltaTaps, Flat(g, nceps))
        h == DropRows(Reshape(flt1, nframes + 10, nceps), 8)
        flt2 == lfilterOn(exact, SmoothTaps, Flat(h, nceps))
    IN  DropRows(Reshape(flt2, nframes + 2, nceps), 2)

\* the concatenation without the delta-delta block
ConcatDeltasNoAccel(m) ==
    LET dl == do_deltas(m, FALSE)
    IN  [i \in 1..Len(m) |-> m[i] \o dl[i]]

\* np.c_[frames, do_deltas(frames), do_deltasdeltas(frames)]
ConcatDeltas(m) ==
    LET dl == do_deltas(m, FALSE)
        dd == do_deltasdeltas(m, FALSE)
    IN  [i \in 1..Len(m) |-> m[i] \o dl[i] \o dd[i]]

-----------------------------------------------------------------------------
(* transform and get_spectrogram *)

\* the width of what transform returns: np.dot(frames, self.filters) has one
\* column per filter, np.dot(frames, self.dctmtx.T) one per row of dctmtx, and
\* np.c_ puts three such blocks side by side
StaticColumns(slf) == IF slf.dct THEN slf.dctmtx.rows ELSE Len(slf.filters)

FeatureColumns(slf) == IF slf.deltas THEN 3 * StaticColumns(slf) ELSE StaticColumns(slf)

\* lines 232-266 on the power spectrum: [err] or [err, rows, cols, m]
Features(slf, frames, noise_profile) ==
    IF MedfiltError(slf) # "none" THEN [err |-> MedfiltError(slf)]
    ELSE LET log_e == LogEnergy(frames)
             fb == compressor(slf, apply_filters(slf, PostProcess(slf, frames, noise_profile)))
             st == IF slf.dct THEN cepstrum(slf, fb, log_e) ELSE fb
         IN  IF slf.deltas /\ Len(frames) < 2 THEN [err |-> "IndexError"]
             ELSE LET m == IF slf.deltas THEN ConcatDeltas(st) ELSE st
                  IN  [err |-> "none", rows |-> Len(m), cols |-> FeatureColumns(slf), m |-> m]

\* lines 290-296 on the power spectrum
Spectrogram(slf, frames) ==
    IF MedfiltError(slf) # "none" THEN [err |-> MedfiltError(slf)]
    ELSE LET f1 == IF slf.medfilt_s[1] > 0 /\ slf.medfilt_s[2] > 0
                   THEN medfilt2d(frames, slf.medfilt_s) ELSE frames
         IN  [err |-> "none", rows |-> Len(f1), cols |-> slf.nfft \div 2 + 1,
              m |-> [i \in 1..Len(f1) |-> [b \in 1..(slf.nfft \div 2 + 1) |-> f1[i]]]]

-----------------------------------------------------------------------------
(* State machine *)

\* a call: its arguments and locals (frames: the power spectrum), and what it
\* returned or raised
NoResult == [err |-> "pending"]

NoCall ==
    [pc |-> "idle", kind |-> "none", sig |-> <<>>, noise_profile |-> "None",
     frames |-> <<>>, result |-> NoResult]

Kinds == {"transform", "get_spectrogram"}

\* what the model leaves out: scipy's filtfilt on a signal longer than its
\* padding, and scipy's median filter on a spectrum without frames
InScope(slf, sig) ==
    /\ ~(slf.remove_dc /\ Len(sig) > DcPadLen)
    /\ ~(/\ slf.medfilt_s[1] > 0 /\ slf.medfilt_s[2] > 0
         /\ slf.wlen >= 0 /\ slf.fshift # 0
         /\ FrameCount(Len(sig), slf.wlen, slf.fshift) = 0)

Init ==
    /\ state = "Unconfigured"
    /\ args = Default
    /\ self = NoSelf
    /\ calls = [t \in Threads |-> NoCall]
    /\ X = <<>>
    /\ dout = NoResult

\* Spectral(**cfg)
Construct(configs) ==
    /\ state = "Unconfigured"
    /\ \E cfg \in configs : \E o \in InitOutcomes(cfg) :
          /\ args' = cfg
          /\ state' = IF o.err = "none" THEN "Ready" ELSE "Failed"
          /\ self' = IF o.err = "none" THEN o.self ELSE [err |-> o.err]
    /\ UNCHANGED <<calls, X, dout>>

\* thread t calls self.transform(sig, noise_profile) or self.get_spectrogram(sig)
Invoke(t) ==
    /\ state = "Ready"
    /\ calls[t].pc \in {"idle", "done"}
    /\ \E kind \in Kinds, sig \in Signals, noise_profile \in NoiseProfiles :
          /\ InScope(self, sig)
          /\ kind = "get_spectrogram" => noise_profile = "None"
          /\ calls' = [calls EXCEPT ![t] =
                 [pc |-> "called", kind |-> kind, sig |-> sig,
                  noise_profile |-> noise_profile, frames |-> <<>>,
                  result |-> NoResult]]
    /\ UNCHANGED <<state, args, self, X, dout>>

\* lines 209-231 (269-290): preprocessing, stft and power spectrum, all on locals
RunStft(t) ==
    /\ calls[t].pc = "called"
    /\ LET c == calls[t]
           p == Preprocess(self, c.sig)
           raised(e) == [c EXCEPT !.pc = "done", !.result = [err |-> e]]
       IN  IF p.err # "none"
           THEN calls' = [calls EXCEPT ![t] = raised(p.err)]
           ELSE IF StftError(self, p.sig) # "none"
           THEN calls' = [calls EXCEPT ![t] = raised(StftError(self, p.sig))]
           ELSE \E frames \in stft(self, p.sig) :
                   calls' = [calls EXCEPT ![t] =
                       [c EXCEPT !.pc = "framed", !.frames = frames]]
    /\ UNCHANGED <<state, args, self, X, dout>>

\* lines 232-266 (292-296): the rest of the call, and its return
Return(t) ==
    /\ calls[t].pc = "framed"
    /\ LET c == calls[t]
       IN  calls' = [calls EXCEPT ![t] =
               [c EXCEPT !.pc = "done",
                         !.result = IF c.kind = "transform"
                                    THEN Features(self, c.frames, c.noise_profile)
                                    ELSE Spectrogram(self, c.frames)]]
    /\ UNCHANGED <<state, args, self, X, dout>>

Next ==
    \/ Construct(Configs)
    \/ Invoke(1)
    \/ RunStft(1)
    \/ Return(1)

Spec == Init /\ [][Next]_vars

-----------------------------------------------------------------------------
(* Two threads sharing one extractor *)

\* the defaults, the cepstral path with deltas, and a shift longer than the window
ThreadConfigs ==
    {Default,
     [Default EXCEPT !.dct = TRUE, !.deltas = TRUE],
     [Default EXCEPT !.window_shift = 24]}

NextThreads ==
    \/ Construct(ThreadConfigs)
    \/ \E t \in Threads : Invoke(t)
    \/ \E t \in Threads : RunStft(t)
    \/ \E t \in Threads : Return(t)

SpecThreads == Init /\ [][NextThreads]_vars

-----------------------------------------------------------------------------
(* The delta filters on integer matrices: dout holds 60 * do_deltas(X) and      *)
(* 120 * do_deltasdeltas(X), the taps being 60 * a and 2 * f                   *)

DeltaInputs ==
    UNION {[1..r -> [1..c -> SampleValues]] : r \in 1..MaxDeltaRows, c \in 1..MaxDeltaCols}

InitDeltas ==
    /\ state = "Unconfigured"
    /\ args = Default
    /\ self = NoSelf
    /\ calls = [t \in Threads |-> NoCall]
    /\ X \in DeltaInputs
    /\ dout = NoResult

\* self.do_deltas(X) and self.do_deltasdeltas(X)
ComputeDeltas ==
    /\ dout = NoResult
    /\ dout' = IF Len(X) < 2 THEN [err |-> "IndexError"]
               ELSE [err |-> "none", delta |-> do_deltas(X, TRUE),
                     deltadelta |-> do_deltasdeltas(X, TRUE)]
    /\ UNCHANGED <<state, args, self, calls, X>>

SpecDeltas == InitDeltas /\ [][ComputeDeltas]_vars

-----------------------------------------------------------------------------
(* The construction contract, as the documentation states it *)

PowersOfTwo == {1, 2, 4, 8, 16, 32, 64}

\* the band rule: 0 <= lowerFreq < upperFreq <= sampleRate / 2
BandRule(c) == 0 <= c.lowerf /\ c.lowerf < c.upperf /\ 2 * c.upperf <= c.fs

\* the other validation rules
ValidationRules(c) ==
    /\ c.fs > 0
    /\ c.window_length > 0
    /\ c.window_shift > 0
    /\ c.nfft \in PowersOfTwo
    /\ c.scale \in {"hertz", "mel", "bark", "erb"}
    /\ c.nfilt > 0
    /\ c.compression \in {"log", "cubicroot", "none"}
    /\ 0 <= c.pre_emph /\ c.pre_emph <= 1

\* no optional filter of the preprocessing is switched on
NoOptionalFilters(c) == ~c.remove_dc /\ c.medfilt_t = 0 /\ c.medfilt_s = <<0, 0>>

Silent(sig) == \A i \in 1..Len(sig) : sig[i] = 0

FiniteFilterbank(slf) ==
    \A f \in 1..Len(slf.filters) : \A b \in 1..Len(slf.filters[f]) : IsFinite(slf.filters[f][b])

-----------------------------------------------------------------------------
(* Claims *)

\* C1: every extractor in the Ready state holds a band with
\* 0 <= lowerFreq < upperFreq <= sampleRate / 2; construction fails for any other
\* band, a negative lowerFreq included.  Stated for configurations that satisfy
\* every other rule of the construction contract.
BandEnforced == (state = "Ready" /\ ValidationRules(args)) => BandRule(self)

\* C2: construction is fail-fast: every extractor that reaches Ready satisfies
\* all validation rules (positive sample rate, window length and window shift,
\* nfft a positive power of two, a known scale, numFilters > 0, a known
\* compression, preEmphasisCoeff in [0, 1]).  Stated for configurations whose
\* band satisfies the band rule.
ConstructionFailFast == (state = "Ready" /\ BandRule(args)) => ValidationRules(args)

\* C3: for a Ready extractor and a non-silent signal of length >= 1, transform
\* returns a matrix of ceil((len + floor(wlen / 2) - wlen) / fshift + 1) rows,
\* also when that is a single row and deltas are on.  Stated for configurations
\* that satisfy the whole construction contract, with no optional filter on and
\* a shift of at least one sample; rows = ceil(q / fshift) + 1 is written as
\* (rows - 2) * fshift < q <= (rows - 1) * fshift.
RowCountLaw ==
    \A t \in Threads :
        LET c == calls[t]
            q == Len(c.sig) + self.wlen \div 2 - self.wlen
        IN  (/\ state = "Ready" /\ c.pc = "done" /\ c.kind = "transform"
             /\ ValidationRules(args) /\ BandRule(args) /\ NoOptionalFilters(args)
             /\ self.fshift > 0
             /\ Len(c.sig) >= 1 /\ ~Silent(c.sig))
            => (/\ c.result.err = "none"
                /\ (c.result.rows - 2) * self.fshift < q
                /\ q <= (c.result.rows - 1) * self.fshift)

\* C4: whenever transform succeeds, every row of the result has featureDimension
\* entries: numFilters without the DCT, numCeps with it, three times that with
\* deltas; and the n_features the extractor stores is that same number.
FeatureDimension(c) == (IF c.dct THEN c.nceps ELSE c.nfilt) * (IF c.deltas THEN 3 ELSE 1)

ColumnCountLaw ==
    /\ state = "Ready" => self.n_features = FeatureDimension(args)
    /\ \A t \in Threads :
          LET c == calls[t]
          IN  (c.pc = "done" /\ c.kind = "transform" /\ c.result.err = "none")
              => (/\ c.result.cols = FeatureDimension(args)
                  /\ c.result.cols = self.n_features
                  /\ \A i \in 1..c.result.rows : Len(c.result.m[i]) = FeatureDimension(args))

\* a successful transform with the DCT and deltas on: three blocks of numCeps columns
ColumnCountWitness ==
    /\ state = "Ready" /\ args.dct /\ args.deltas /\ args.nceps = 2 /\ args.nfilt = 3
    /\ calls[1].pc = "done" /\ calls[1].kind = "transform"
    /\ calls[1].result.err = "none" /\ calls[1].result.rows >= 2
    /\ Len(calls[1].result.m[1]) = 6

\* C5: two calls with identical inputs on the same extractor, from whichever
\* threads and however interleaved, return identical outputs.  Stated for calls
\* without a noise profile.
IdenticalOutputs ==
    \A t, u \in Threads :
        (/\ calls[t].pc = "done" /\ calls[u].pc = "done"
         /\ calls[t].kind = calls[u].kind /\ calls[t].sig = calls[u].sig
         /\ calls[t].noise_profile = "None" /\ calls[u].noise_profile = "None")
        => calls[t].result = calls[u].result

\* C6: transform of a silent signal with noiseFrameCount = 5 returns no NaN.
\* Stated for configurations that satisfy the construction contract and whose
\* filterbank holds finite coefficients only.
SilentNoNaN ==
    \A t \in Threads :
        LET c == calls[t]
        IN  (/\ state = "Ready" /\ c.pc = "done" /\ c.kind = "transform"
             /\ ValidationRules(args) /\ BandRule(args) /\ FiniteFilterbank(self)
             /\ args.noise_fr = 5 /\ c.noise_profile = "None"
             /\ Len(c.sig) >= 1 /\ Silent(c.sig)
             /\ c.result.err = "none")
            => \A i \in 1..c.result.rows : \A j \in 1..Len(c.result.m[i]) :
                   c.result.m[i][j] # "nan"

\* n is a nearest integer to p / TimeDen
IsNearest(n, p) == 2 * Abs(n * TimeDen - p) <= TimeDen

\* n is p / TimeDen with its fractional part dropped
IsTruncated(n, p) ==
    /\ Abs(n) * TimeDen <= Abs(p)
    /\ Abs(p) < (Abs(n) + 1) * TimeDen
    /\ n # 0 => Sign(n) = Sign(p)

\* C7 (as stated): for every accepted configuration, wlen and fshift are the
\* nearest integers to window_length * fs and window_shift * fs.
NearestSizes ==
    (state = "Ready" /\ ValidationRules(args) /\ BandRule(args))
    => (/\ IsNearest(self.wlen, args.window_length * args.fs)
        /\ IsNearest(self.fshift, args.window_shift * args.fs))

\* C7 (amended): for every accepted configuration, wlen and fshift are the
\* products window_length * fs and window_shift * fs truncated toward zero.
TruncatedSizes ==
    state = "Ready"
    => (/\ IsTruncated(self.wlen, args.window_length * args.fs)
        /\ IsTruncated(self.fshift, args.window_shift * args.fs))

\* a window of 15/128 s at 32 Hz, 3.75 samples, becomes 3
TruncatedSizesWitness ==
    /\ state = "Ready" /\ args.window_length = 15 /\ args.fs = 32
    /\ self.wlen = 3

\* C8: every frame the STFT extracts lies inside the padded buffer:
\* (frameCount - 1) * fshift + wlen <= len + floor(wlen / 2) + wlen, also when
\* fshift > wlen.  Stated for configurations that satisfy the construction
\* contract, with a window and a shift of at least one sample.
FramesInsideBuffer ==
    \A t \in Threads :
        LET c == calls[t]
        IN  (/\ state = "Ready" /\ c.pc = "framed"
             /\ ValidationRules(args) /\ BandRule(args)
             /\ self.wlen > 0 /\ self.fshift > 0
             /\ Len(c.frames) >= 1)
            => (Len(c.frames) - 1) * self.fshift + self.wlen
                   <= Len(c.sig) + self.wlen \div 2 + self.wlen

\* C9: the delta filter works column by column: for X with at least two rows,
\* 60 * out[t][j] is the sum over k = 0..8 of (4 - k) * P[t + 8 - k][j], with P
\* the input padded by four rows above and four rows below.
ColumnwiseDelta ==
    dout.err = "none"
    => LET P == PadRows(X, 4)
       IN  \A t \in 1..Len(X) : \A j \in 1..Len(X[1]) :
               dout.delta[t][j] =
                     4 * P[t + 8][j] + 3 * P[t + 7][j] + 2 * P[t + 6][j] + P[t + 5][j]
                   - P[t + 3][j] - 2 * P[t + 2][j] - 3 * P[t + 1][j] - 4 * P[t][j]

\* C10: every coefficient of the filterbank of a Ready extractor is a defined,
\* finite number: no ramp is computed with a zero denominator and no filter
\* with a zero sum is tapered.  Stated for configurations that satisfy the
\* construction contract.
FilterbankTotal ==
    (state = "Ready" /\ ValidationRules(args) /\ BandRule(args)) => FiniteFilterbank(self)

=============================================================================
